---- MODULE Spec2Model ----
(***************************************************************************)
(* Model of qnet-spec/templates/dpi-compare.py: the DPI parity helper that *)
(* resolves two capture specifiers, extracts the lengths of the port-443   *)
(* packets of each capture, buckets them into a CDF and prints a PASS/FAIL *)
(* verdict on the maximum CDF delta.                                       *)
(*                                                                         *)
(* Fractions are exact rationals <<numerator, denominator>> with a         *)
(* positive denominator; the program computes them as IEEE doubles.        *)
(***************************************************************************)
EXTENDS Integers, Sequences, FiniteSets

\* ---------------------------------------------------------------- bounds
NFiles == 2
MaxTime == 2
MaxArgs == 3
MaxPkts == 2
MaxLen == 3

Files == 1..NFiles
Times == 1..MaxTime

\* ------------------------------------------------------------- rationals
Frac(n, d) == <<n, d>>
Abs(x) == IF x < 0 THEN -x ELSE x
\* abs(va - vb)
AbsDiff(x, y) == <<Abs(x[1] * y[2] - y[1] * x[2]), x[2] * y[2]>>
Leq(x, y) == x[1] * y[2] <= y[1] * x[2]
Gt(x, y) == x[1] * y[2] > y[1] * x[2]
FracEq(x, y) == x[1] * y[2] = y[1] * x[2]
Zero == <<0, 1>>

\* --------------------------------------------------------------- packets
HTTPS == 443
NoLayer == [present |-> FALSE, sport |-> 0, dport |-> 0]
PortPairs == {<<80, HTTPS>>, <<HTTPS, 80>>, <<80, 80>>}
Layers == {NoLayer} \cup {[present |-> TRUE, sport |-> pp[1], dport |-> pp[2]] : pp \in PortPairs}
PktLens == {60, 1500}
Packets == [tcp : Layers, udp : Layers, len : PktLens]

\* the length of p that load_lengths appends, len(bytes(p))
PktLen(p) == p.len

\* faulty variant: the UDP test as a second if, not an elif
load_lengths_double(pkts) ==
    LET RECURSIVE Loop(_, _)
        Loop(i, lengths) ==
            IF i > Len(pkts) THEN lengths
            ELSE LET p == pkts[i]
                     l1 == IF p.tcp.present /\ (p.tcp.sport = HTTPS \/ p.tcp.dport = HTTPS)
                           THEN Append(lengths, PktLen(p)) ELSE lengths
                     l2 == IF p.udp.present /\ (p.udp.sport = HTTPS \/ p.udp.dport = HTTPS)
                           THEN Append(l1, PktLen(p)) ELSE l1
                 IN Loop(i + 1, l2)
    IN Loop(1, <<>>)

load_lengths(pkts) ==
    LET RECURSIVE Loop(_, _)
        Loop(i, lengths) ==
            IF i > Len(pkts) THEN lengths
            ELSE LET p == pkts[i]
                 IN IF p.tcp.present /\ (p.tcp.sport = HTTPS \/ p.tcp.dport = HTTPS)
                    THEN Loop(i + 1, Append(lengths, PktLen(p)))
                    ELSE IF p.udp.present /\ (p.udp.sport = HTTPS \/ p.udp.dport = HTTPS)
                    THEN Loop(i + 1, Append(lengths, PktLen(p)))
                    ELSE Loop(i + 1, lengths)
    IN Loop(1, <<>>)

\* ------------------------------------------------------------------- CDF
buckets == <<1024, 2048, 4096, 8192, 16384, 65536, 131072>>

\* faulty variant: x < b
CountLt(lengths, b) ==
    LET RECURSIVE Sum(_)
        Sum(i) == IF i > Len(lengths) THEN 0
                  ELSE (IF lengths[i] < b THEN 1 ELSE 0) + Sum(i + 1)
    IN Sum(1)

\* sum(1 for x in lengths if x <= b)
CountLeq(lengths, b) ==
    LET RECURSIVE Sum(_)
        Sum(i) == IF i > Len(lengths) THEN 0
                  ELSE (IF lengths[i] <= b THEN 1 ELSE 0) + Sum(i + 1)
    IN Sum(1)

\* faulty variant: no "or 1"
TotalRaw(lengths) == Len(lengths)

\* len(lengths) or 1
Total(lengths) == IF Len(lengths) = 0 THEN 1 ELSE Len(lengths)

cdf_buckets(lengths) ==
    [i \in 1..Len(buckets) |->
        <<buckets[i], Frac(CountLeq(lengths, buckets[i]), Total(lengths))>>]

\* ------------------------------------------------------------ output lines
Line(stream, kind, arg) == [stream |-> stream, kind |-> kind, arg |-> arg]

BucketLines(ca) == [i \in 1..Len(ca) |-> Line("stdout", "bucket", <<ca[i][1]>>)]

\* faulty variant: only the first boundary is compared
MaxDeltaFirst(ca, cb) == AbsDiff(ca[1][2], cb[1][2])

\* the loop of compare: the largest abs(va - vb) over the zipped points
MaxDelta(ca, cb) ==
    LET RECURSIVE Loop(_, _)
        Loop(i, md) ==
            IF i > Len(ca) \/ i > Len(cb) THEN md
            ELSE LET d == AbsDiff(ca[i][2], cb[i][2])
                 IN Loop(i + 1, IF Gt(d, md) THEN d ELSE md)
    IN Loop(1, Zero)

\* faulty variant: max_delta < threshold
StatusStrict(md, thr) == IF Gt(thr, md) THEN "PASS" ELSE "FAIL"

\* "PASS" if max_delta <= args.threshold else "FAIL"
Status(md, thr) == IF Leq(md, thr) THEN "PASS" ELSE "FAIL"

\* faulty variant: the verdict decides the exit status
ExitOnVerdict(st) == IF st = "PASS" THEN 0 ELSE 1

\* main returns None: the interpreter exits with 0 whatever the verdict
ExitOfMain(st) == 0

\* --------------------------------------------------------- input resolver
\* What the operating system answers about one specifier: os.path.isdir(spec),
\* os.path.exists(spec), the list glob.glob returns for the pattern the code
\* builds from it, and the file the specifier itself names.
Listings == {s \in UNION {[1..n -> Files] : n \in 0..NFiles} :
                \A i, j \in DOMAIN s : i # j => s[i] # s[j]}
\* (the file named matters only where line 39 uses it, and is file 1 elsewhere)
SpecEnvs == {e \in [isdir : BOOLEAN, exists : BOOLEAN, glob : Listings, self : Files] :
                /\ e.isdir => e.exists
                /\ (e.isdir \/ e.glob # <<>>) => e.self = 1}

VARIABLES pc, argc, threshold, fs, probe, candidates, latest,
          stealth_path, baseline_path, parsed, a, b, ca, cb, max_delta,
          status, out, exit_code, steps

vars == <<pc, argc, threshold, fs, probe, candidates, latest,
          stealth_path, baseline_path, parsed, a, b, ca, cb, max_delta,
          status, out, exit_code, steps>>

\* os.path.getmtime(p)
getmtime(p) == fs[p].mtime

\* faulty variant: the fallback without os.path.exists
CandidatesNoExistsCheck(env) ==
    IF env.isdir THEN env.glob
    ELSE IF env.glob = <<>> THEN <<env.self>>
    ELSE env.glob

\* lines 32-39: the candidate list of one specifier
Candidates(env) ==
    IF env.isdir THEN env.glob
    ELSE IF env.glob = <<>> /\ env.exists THEN <<env.self>>
    ELSE env.glob

\* faulty variant: candidates[0]
FirstCandidate(c) == c[1]

\* max(candidates, key=getmtime): the first candidate of the largest mtime
MaxByMtime(c) ==
    LET RECURSIVE Loop(_, _)
        Loop(i, best) ==
            IF i > Len(c) THEN best
            ELSE Loop(i + 1, IF getmtime(c[i]) > getmtime(best) THEN c[i] ELSE best)
    IN Loop(2, c[1])

NoPath == 0

\* what the error message of line 41 names
ErrorNames(spec) == spec

resolve_input(spec, env) ==
    LET c == Candidates(env)
    IN IF c = <<>>
       THEN [exit |-> TRUE, candidates |-> c, latest |-> NoPath,
             msgs |-> <<Line("stdout", "notfound", <<ErrorNames(spec)>>)>>]
       ELSE LET l == MaxByMtime(c)
            IN [exit |-> FALSE, candidates |-> c, latest |-> l,
                msgs |-> IF Len(c) > 1
                         THEN <<Line("stdout", "info", <<Len(c), l>>)>>
                         ELSE <<>>]

\* -------------------------------------------------------------- compare
compare(x, y) ==
    LET cx == cdf_buckets(x)
        cy == cdf_buckets(y)
    IN [ca |-> cx, cb |-> cy, max_delta |-> MaxDelta(cx, cy),
        msgs |-> <<Line("stdout", "packets", <<Len(x), Len(y)>>),
                   Line("stdout", "cdf_header", <<>>)>> \o BucketLines(cx)]

\* ------------------------------------------------------------ the program
NoProbe == [spec |-> "none", isdir |-> FALSE, exists |-> FALSE, nglob |-> 0]

\* the answers one call of resolve_input got
Probe(spec, env) ==
    [spec |-> spec, isdir |-> env.isdir, exists |-> env.exists, nglob |-> Len(env.glob)]

\* faulty variant: the usage on standard output
UsageStdout == <<Line("stdout", "usage", <<>>), Line("stdout", "argerror", <<>>)>>

\* argparse's error(): print_usage(sys.stderr), then the message to stderr
UsageLines == <<Line("stderr", "usage", <<>>), Line("stderr", "argerror", <<>>)>>

\* parser.parse_args(): two positionals, or usage and exit status 2
ParseArgs ==
    /\ pc = "parse_args"
    /\ IF argc = 2
       THEN /\ pc' = "resolve_stealth"
            /\ UNCHANGED <<out, exit_code>>
       ELSE /\ pc' = "exit"
            /\ out' = out \o UsageLines
            /\ exit_code' = 2
    /\ UNCHANGED <<argc, threshold, fs, probe, candidates, latest, stealth_path,
                   baseline_path, parsed, a, b, ca, cb, max_delta, status, steps>>

\* stealth_path = resolve_input(args.stealth)
ResolveStealth ==
    /\ pc = "resolve_stealth"
    /\ \E env \in SpecEnvs :
         LET r == resolve_input("stealth", env)
         IN /\ probe' = Probe("stealth", env)
            /\ candidates' = r.candidates
            /\ latest' = r.latest
            /\ out' = out \o r.msgs
            /\ steps' = Append(steps, "resolve_stealth")
            /\ IF r.exit
               THEN /\ pc' = "exit"
                    /\ exit_code' = 2
                    /\ UNCHANGED stealth_path
               ELSE /\ pc' = "resolve_baseline"
                    /\ stealth_path' = r.latest
                    /\ UNCHANGED exit_code
    /\ UNCHANGED <<argc, threshold, fs, baseline_path, parsed, a, b, ca, cb,
                   max_delta, status>>

\* baseline_path = resolve_input(args.baseline), then the two path lines
ResolveBaseline ==
    /\ pc = "resolve_baseline"
    /\ \E env \in SpecEnvs :
         LET r == resolve_input("baseline", env)
         IN /\ probe' = Probe("baseline", env)
            /\ candidates' = r.candidates
            /\ latest' = r.latest
            /\ steps' = Append(steps, "resolve_baseline")
            /\ IF r.exit
               THEN /\ pc' = "exit"
                    /\ exit_code' = 2
                    /\ out' = out \o r.msgs
                    /\ UNCHANGED baseline_path
               ELSE /\ pc' = "load_stealth"
                    /\ baseline_path' = r.latest
                    /\ out' = out \o r.msgs \o
                              <<Line("stdout", "stealth_path", <<stealth_path>>),
                                Line("stdout", "baseline_path", <<r.latest>>)>>
                    /\ UNCHANGED exit_code
    /\ UNCHANGED <<argc, threshold, fs, stealth_path, parsed, a, b, ca, cb,
                   max_delta, status>>

Traceback == <<Line("stderr", "traceback", <<>>)>>

\* a = load_lengths(stealth_path); rdpcap raises on a file it cannot decode
LoadStealth ==
    /\ pc = "load_stealth"
    /\ steps' = Append(steps, "parse_stealth")
    /\ probe' = NoProbe /\ candidates' = <<>> /\ latest' = NoPath
    /\ IF fs[stealth_path].ok
       THEN /\ a' = load_lengths(fs[stealth_path].pkts)
            /\ parsed' = parsed \cup {"stealth"}
            /\ pc' = "load_baseline"
            /\ UNCHANGED <<out, exit_code>>
       ELSE /\ out' = out \o Traceback
            /\ exit_code' = 1
            /\ pc' = "exit"
            /\ UNCHANGED <<a, parsed>>
    /\ UNCHANGED <<argc, threshold, fs, stealth_path, baseline_path, b, ca, cb,
                   max_delta, status>>

\* faulty variant: an undecodable baseline is treated as empty and the run goes on
LoadBaselineSkip ==
    /\ pc = "load_baseline"
    /\ steps' = Append(steps, "parse_baseline")
    /\ b' = IF fs[baseline_path].ok THEN load_lengths(fs[baseline_path].pkts) ELSE <<>>
    /\ parsed' = IF fs[baseline_path].ok THEN parsed \cup {"baseline"} ELSE parsed
    /\ out' = IF fs[baseline_path].ok THEN out ELSE out \o Traceback
    /\ pc' = "compare"
    /\ UNCHANGED <<argc, threshold, fs, probe, candidates, latest, stealth_path,
                   baseline_path, a, ca, cb, max_delta, status, exit_code>>

\* b = load_lengths(baseline_path)
LoadBaseline ==
    /\ pc = "load_baseline"
    /\ steps' = Append(steps, "parse_baseline")
    /\ IF fs[baseline_path].ok
       THEN /\ b' = load_lengths(fs[baseline_path].pkts)
            /\ parsed' = parsed \cup {"baseline"}
            /\ pc' = "compare"
            /\ UNCHANGED <<out, exit_code>>
       ELSE /\ out' = out \o Traceback
            /\ exit_code' = 1
            /\ pc' = "exit"
            /\ UNCHANGED <<b, parsed>>
    /\ UNCHANGED <<argc, threshold, fs, probe, candidates, latest, stealth_path,
                   baseline_path, a, ca, cb, max_delta, status>>

\* max_delta = compare(a, b)
Compare ==
    /\ pc = "compare"
    /\ LET r == compare(a, b)
       IN /\ ca' = r.ca
          /\ cb' = r.cb
          /\ max_delta' = r.max_delta
          /\ out' = out \o r.msgs
    /\ steps' = Append(steps, "compare")
    /\ pc' = "verdict"
    /\ UNCHANGED <<argc, threshold, fs, probe, candidates, latest, stealth_path,
                   baseline_path, parsed, a, b, status, exit_code>>

\* status and the Result line; main returns
Verdict ==
    /\ pc = "verdict"
    /\ status' = Status(max_delta, threshold)
    /\ out' = Append(out, Line("stdout", "result", <<Status(max_delta, threshold)>>))
    /\ steps' = Append(steps, "verdict")
    /\ exit_code' = ExitOfMain(Status(max_delta, threshold))
    /\ pc' = "exit"
    /\ UNCHANGED <<argc, threshold, fs, probe, candidates, latest, stealth_path,
                   baseline_path, parsed, a, b, ca, cb, max_delta>>

\* ------------------------------------------------------------ whole runs
DefaultThreshold == <<1, 10>>
MainThresholds == {DefaultThreshold}

Pkt443(l) == [tcp |-> [present |-> TRUE, sport |-> 80, dport |-> HTTPS],
              udp |-> NoLayer, len |-> l]
PktOther(l) == [tcp |-> [present |-> TRUE, sport |-> 80, dport |-> 80],
                udp |-> NoLayer, len |-> l]
CaptureOf(lengths) == [i \in 1..Len(lengths) |-> Pkt443(lengths[i])]

MainContents ==
    { [ok |-> FALSE, pkts |-> <<>>],
      [ok |-> TRUE, pkts |-> <<Pkt443(500), PktOther(9000), Pkt443(1500), Pkt443(3000)>>],
      [ok |-> TRUE, pkts |-> CaptureOf(<<500, 500, 500>>)] }

File(t, c) == [mtime |-> t, ok |-> c.ok, pkts |-> c.pkts]
MainFiles == {File(t, c) : t \in Times, c \in MainContents}

Fresh ==
    /\ probe = NoProbe /\ candidates = <<>> /\ latest = NoPath
    /\ parsed = {} /\ a = <<>> /\ b = <<>> /\ ca = <<>> /\ cb = <<>>
    /\ max_delta = Zero /\ status = "" /\ exit_code = -1

Init ==
    /\ pc = "parse_args"
    /\ argc \in 0..MaxArgs
    /\ threshold \in MainThresholds
    /\ fs \in [Files -> MainFiles]
    /\ stealth_path = NoPath /\ baseline_path = NoPath
    /\ out = <<>> /\ steps = <<>>
    /\ Fresh

Next ==
    \/ ParseArgs
    \/ ResolveStealth
    \/ ResolveBaseline
    \/ LoadStealth
    \/ LoadBaseline
    \/ Compare
    \/ Verdict

Spec == Init /\ [][Next]_vars

\* ------------------------------------------------- runs from the load step
\* The state main is in once both specifiers have resolved to the plain files
\* 1 and 2, over wider capture contents than the whole runs draw.
Seqs(S, n) == UNION {[1..k -> S] : k \in 0..n}
Thresholds == {<<-1, 10>>, <<0, 1>>, DefaultThreshold, <<2, 3>>}
CmpLens == {500, 1500, 3000}
CdfLens == {500, 1024, 1025, 4096, 65537, 131072, 131073}
EmptyCapture == [ok |-> TRUE, pkts |-> <<>>]

DataFs(p1, p2) ==
    [f \in Files |-> File(1, IF f = 1 THEN [ok |-> TRUE, pkts |-> p1]
                             ELSE IF f = 2 THEN [ok |-> TRUE, pkts |-> p2]
                             ELSE EmptyCapture)]

Resolved ==
    /\ pc = "load_stealth"
    /\ argc = 2
    /\ stealth_path = 1 /\ baseline_path = 2
    /\ probe = [spec |-> "baseline", isdir |-> FALSE, exists |-> TRUE, nglob |-> 1]
    /\ candidates = <<2>> /\ latest = 2
    /\ out = <<Line("stdout", "stealth_path", <<1>>), Line("stdout", "baseline_path", <<2>>)>>
    /\ steps = <<"resolve_stealth", "resolve_baseline">>
    /\ parsed = {} /\ a = <<>> /\ b = <<>> /\ ca = <<>> /\ cb = <<>>
    /\ max_delta = Zero /\ status = "" /\ exit_code = -1

InitLoad ==
    /\ threshold = DefaultThreshold
    /\ \E p1 \in Seqs(Packets, MaxPkts) : fs = DataFs(p1, <<>>)

InitCompare ==
    /\ threshold \in Thresholds
    /\ \E x \in Seqs(CmpLens, MaxLen), y \in Seqs(CmpLens, MaxLen) :
         fs = DataFs(CaptureOf(x), CaptureOf(y))

InitCdf ==
    /\ threshold = DefaultThreshold
    /\ \E x \in Seqs(CdfLens, MaxLen) : fs = DataFs(CaptureOf(x), <<>>)

InitData == Resolved /\ (InitLoad \/ InitCompare \/ InitCdf)

NextData ==
    \/ LoadStealth
    \/ LoadBaseline
    \/ Compare
    \/ Verdict

SpecData == InitData /\ [][NextData]_vars

\* ------------------------------------------------------------ the claims
Range(s) == {s[i] : i \in DOMAIN s}
Kinds(lines) == {lines[i].kind : i \in DOMAIN lines}
Order == <<"resolve_stealth", "resolve_baseline", "parse_stealth",
           "parse_baseline", "compare", "verdict">>
Boundaries == <<1024, 2048, 4096, 8192, 16384, 65536, 131072>>
Compared == "compare" \in Range(steps)
Judged == "verdict" \in Range(steps)

\* the fraction of the samples of xs that are <= bnd, the denominator 1 for no samples
FractionAt(xs, bnd) ==
    <<Cardinality({i \in DOMAIN xs : xs[i] <= bnd}), IF xs = <<>> THEN 1 ELSE Len(xs)>>
DeltaAt(i) == AbsDiff(FractionAt(a, Boundaries[i]), FractionAt(b, Boundaries[i]))

C2_ExitZero ==
    /\ (stealth_path # NoPath /\ baseline_path # NoPath /\ parsed = {"stealth", "baseline"})
          => /\ exit_code \in {-1, 0}
             /\ pc = "exit" => (exit_code = 0 /\ status \in {"PASS", "FAIL"})
    /\ status \in {"PASS", "FAIL"} => exit_code = 0

C2_Witness ==
    /\ pc = "exit"
    /\ parsed = {"stealth", "baseline"}
    /\ status = "FAIL"
    /\ exit_code = 0

\* a TCP or UDP layer of p has source or destination port 443
Matches(p) ==
    \/ p.tcp.present /\ (p.tcp.sport = 443 \/ p.tcp.dport = 443)
    \/ p.udp.present /\ (p.udp.sport = 443 \/ p.udp.dport = 443)
Matching(pkts) == SelectSeq(pkts, Matches)
LengthsOf(pkts) == [i \in 1..Len(pkts) |-> pkts[i].len]

\* C3: load_lengths returns exactly one length per TCP or UDP packet with source
\* or destination port 443, in file order, and nothing for any other packet.
C3_LoadLengths ==
    /\ "stealth" \in parsed =>
          /\ a = LengthsOf(Matching(fs[stealth_path].pkts))
          /\ Len(a) = Cardinality({i \in DOMAIN fs[stealth_path].pkts :
                                      Matches(fs[stealth_path].pkts[i])})
    /\ "baseline" \in parsed =>
          b = LengthsOf(Matching(fs[baseline_path].pkts))

C3_Witness ==
    /\ "stealth" \in parsed
    /\ Len(fs[stealth_path].pkts) = 2
    /\ LET p == fs[stealth_path].pkts[1]
           q == fs[stealth_path].pkts[2]
       IN /\ p.tcp.present /\ p.tcp.dport = 443 /\ p.udp.present /\ p.udp.sport = 443
          /\ ~Matches(q)
          /\ p.len # q.len
    /\ Len(a) = 1

CdfOf(c, xs) ==
    /\ Len(c) = 7
    /\ \A i \in 1..7 :
          /\ c[i][1] = Boundaries[i]
          /\ c[i][2][2] > 0
          /\ FracEq(c[i][2], FractionAt(xs, Boundaries[i]))
          /\ xs = <<>> => c[i][2] = <<0, 1>>

\* C4: cdf_buckets returns one point per boundary of 1024 .. 131072 in that
\* order, each fraction (samples <= boundary) / count, the denominator being 1
\* for an empty set, whose fractions are all exactly 0.
C4_CdfBuckets == Compared => (CdfOf(ca, a) /\ CdfOf(cb, b))

C4_Witness ==
    /\ Compared
    /\ a = <<1024, 1025, 131073>>
    /\ b = <<>>
    /\ ca[1][2] = <<1, 3>>
    /\ cb[1][2] = <<0, 1>>

\* C5: of more than one candidate, resolve_input returns the one whose
\* modification time is strictly later than every other's.
C5_Latest ==
    (probe.spec # "none" /\ Len(candidates) > 1) =>
        /\ latest \in Range(candidates)
        /\ \A i \in DOMAIN candidates :
              (\A j \in DOMAIN candidates \ {i} :
                  fs[candidates[j]].mtime < fs[candidates[i]].mtime)
              => /\ latest = candidates[i]
                 /\ probe.spec = "stealth" => stealth_path = candidates[i]
                 /\ probe.spec = "baseline" => baseline_path = candidates[i]

C5_Witness ==
    /\ probe.spec = "stealth"
    /\ Len(candidates) = 2
    /\ fs[candidates[1]].mtime < fs[candidates[2]].mtime
    /\ stealth_path = candidates[2]

\* the specifier of the last resolve_input call has no candidate: a directory
\* without a *.pcap* entry, a glob without a match, a path that does not exist
NoCandidate ==
    /\ probe.spec # "none"
    /\ probe.nglob = 0
    /\ probe.isdir \/ ~probe.exists

\* C6: a specifier with an empty candidate set ends the run with exit code 2
\* after an error message naming that specifier, and no path is returned.
C6_NotFound ==
    NoCandidate =>
        /\ pc = "exit"
        /\ exit_code = 2
        /\ out # <<>>
        /\ out[Len(out)].kind = "notfound"
        /\ out[Len(out)].arg = <<probe.spec>>
        /\ latest = NoPath
        /\ probe.spec = "stealth" => stealth_path = NoPath
        /\ probe.spec = "baseline" => baseline_path = NoPath

C6_Witness ==
    /\ NoCandidate
    /\ probe.spec = "baseline"
    /\ ~probe.isdir /\ ~probe.exists
    /\ stealth_path # NoPath
    /\ exit_code = 2

UsageOn(stream) ==
    (pc = "exit" /\ argc # 2) =>
        /\ exit_code = 2
        /\ \E i \in DOMAIN out : out[i].kind = "usage" /\ out[i].stream = stream
        /\ steps = <<>>
        /\ stealth_path = NoPath /\ baseline_path = NoPath /\ parsed = {}
        /\ Kinds(out) \subseteq {"usage", "argerror"}

\* C7 as stated: a wrong number of positional arguments writes a usage message
\* to standard output and exits with 2 before anything is resolved or parsed.
C7_UsageStdout == UsageOn("stdout")

\* C7: a wrong number of positional arguments writes a usage message to
\* standard error and exits with 2 before anything is resolved or parsed.
C7_UsageStderr == UsageOn("stderr") /\ (argc # 2 => pc \in {"parse_args", "exit"})

C7_Witness ==
    /\ argc = 1
    /\ pc = "exit"
    /\ exit_code = 2
    /\ out # <<>>

\* C8: for a non-empty sample set the fraction at the last boundary, 131072,
\* is 1 iff the largest sample is <= 131072.
C8_LastFraction ==
    Compared =>
        /\ a # <<>> => (/\ ca[Len(ca)][1] = 131072
                        /\ FracEq(ca[Len(ca)][2], <<1, 1>>) <=> \A i \in DOMAIN a : a[i] <= 131072)
        /\ b # <<>> => (/\ cb[Len(cb)][1] = 131072
                        /\ FracEq(cb[Len(cb)][2], <<1, 1>>) <=> \A i \in DOMAIN b : b[i] <= 131072)

C8_Witness ==
    /\ Compared
    /\ a = <<500, 131072>>
    /\ ca[7][2] = <<2, 2>>

\* C9: identical sample sets, the empty one included, give delta 0 at every
\* boundary, max_delta 0 and verdict PASS for every threshold >= 0.
C9_Identical ==
    (Compared /\ a = b) =>
        /\ \A i \in DOMAIN ca : AbsDiff(ca[i][2], cb[i][2])[1] = 0
        /\ max_delta[1] = 0
        /\ (Judged /\ threshold[1] >= 0) => status = "PASS"

C9_Witness ==
    /\ Judged
    /\ a = b
    /\ a = <<500, 1500, 3000>>
    /\ threshold = <<0, 1>>
    /\ status = "PASS"

C9_WitnessEmpty ==
    /\ Judged
    /\ a = <<>> /\ b = <<>>
    /\ threshold = <<0, 1>>
    /\ status = "PASS"

IsPrefix(s, t) == Len(s) <= Len(t) /\ \A i \in DOMAIN s : s[i] = t[i]
ReportKinds == {"packets", "cdf_header", "bucket", "result"}

\* C10: the steps run at most once each in the order resolve stealth, resolve
\* baseline, parse stealth, parse baseline, compare, verdict; a failed resolution
\* or parse ends the run, which then prints no Packets, bucket or Result line.
C10_Pipeline ==
    /\ IsPrefix(steps, Order)
    /\ exit_code \in {1, 2} => (pc = "exit" /\ Kinds(out) \cap ReportKinds = {})
    /\ pc = "exit" => ~ENABLED Next
    /\ Kinds(out) \cap ReportKinds # {} =>
          /\ stealth_path # NoPath /\ baseline_path # NoPath
          /\ parsed = {"stealth", "baseline"}
          /\ IsPrefix(SubSeq(Order, 1, 5), steps)

C10_Witness ==
    /\ pc = "exit"
    /\ exit_code = 1
    /\ steps = SubSeq(Order, 1, 4)
    /\ parsed = {"stealth"}
    /\ Kinds(out) \cap ReportKinds = {}

====
